---- MODULE Spec2Model ----
(***************************************************************************)
(* The request admission pipeline of the backend (server/src/lib) and the  *)
(* self-registering route table that assembles it at process start.        *)
(*                                                                         *)
(* routesHandler() loads every endpoint module, and for each declared      *)
(* endpoint installs the chain                                             *)
(*   [authHandler(authorization), rateLimiter.limit(rateLimit, keyType),   *)
(*    ...middlewares, tryCatch(handler)]                                   *)
(* on an Express router.  app.ts mounts the router, then a catch-all that  *)
(* throws NotFoundError, then errorHandler.                                *)
(*                                                                         *)
(* rateLimiter.limit() calls express-rate-limit's rateLimit({windowMs,     *)
(* max, keyGenerator}) once per endpoint.  The library is a dependency of  *)
(* the repository; it is modelled by its default behaviour: every          *)
(* rateLimit() call owns a fresh MemoryStore, the store keeps per key a    *)
(* hit counter and a reset time, increment() runs without suspending       *)
(* (reset the client when resetTime <= now, then count the hit), a hit     *)
(* count above max is answered by the limiter itself with status 429 and a *)
(* plain text body, and an exception of keyGenerator is passed to next().  *)
(* The store's periodic sweep only drops clients whose window has already  *)
(* expired, which increment() would reset anyway, so it is not modelled.   *)
(*                                                                         *)
(* verifyJwt exists in two versions: one verifies with the local secret,    *)
(* one with the key set of the identity provider (jose's                   *)
(* createRemoteJWKSet).  Both answer authHandler alike; the second may     *)
(* have to fetch the keys, a fetch jose aborts after its timeoutDuration.  *)
(*                                                                         *)
(* Time is a discrete clock; windowMs (60 000 ms for every tier) is        *)
(* WindowTicks ticks of the clock, and the tiers' max values are scaled    *)
(* down, keeping their order (strict < gameplay < read).                   *)
(***************************************************************************)
EXTENDS Integers, Sequences, FiniteSets, TLC

VARIABLES
    phase,      \* "registering" | "serving" | "aborted": position of app.ts
    loaded,     \* number of directory entries routesHandler has processed
    directory,  \* the endpoint modules found in ../routes (fixed at start)
    clients,    \* the clients that send requests: credential and address
    load,       \* how many requests arrive, how many at a time; the key set
    router,     \* the Express router: sequence of installed route entries
    store,      \* per route entry, the MemoryStore of its limiter: key -> client
    now,        \* Date.now() in clock ticks
    reqs,       \* per slot, the request being processed
    nreq,       \* number of requests that have arrived so far
    hist,       \* history: per route entry and key, the current counting window
    tierHist,   \* history: per tier and key, the current counting window
    db,         \* the document store: the collections the modelled handlers use
    jobs        \* per handler invocation that is followed step by step, its state

vars == <<phase, loaded, directory, clients, load, router, store, now, reqs, nreq, hist, tierHist, db, jobs>>

---------------------------------------------------------------------------
(* Bounds of the model *)

MaxInFlight   == 2   \* requests processed concurrently
SweepRequests == 2   \* requests arriving in a run of the credential sweep
QuotaRequests == 4   \* requests arriving in a run that spends a quota
BurstRequests == 3   \* requests arriving in a run of the burst
FaultRequests == 3   \* requests arriving in a run against the faulty directory
GuestRequests == 2   \* requests arriving in a run of the optional endpoint
StallRequests == 2   \* requests arriving in a run with a flaky identity provider
KeyRequests   == 2   \* requests arriving in a run about the limiter's keys
WindowHits    == 4   \* calls of one limiter in a run that follows its decisions
MaxSubmits    == 2   \* invocations of the quiz submit handler in a run
MaxPatches    == 2   \* invocations of the study topic PATCH handler in a run
MaxTime     == 2     \* last clock tick
WindowTicks == 2     \* windowMs, in clock ticks
StrictMax   == 2     \* limits.strict.max, scaled
GameplayMax == 3     \* limits.gameplay.max, scaled
ReadMax     == 4     \* limits.read.max, scaled

Slots == 1..MaxInFlight

Undefined == "undefined"

---------------------------------------------------------------------------
(* types/router.ts and the endpoint declarations *)

NoProps == "<absent>"

\* The extra middlewares the endpoint modules use: requireRole(...roles) and
\* multer's upload.single("file").
RoleGuard(roles) == [kind |-> "requireRole", roles |-> roles]
Upload == [kind |-> "upload", roles |-> {}]

\* handler is the kind of the endpoint's handler: "json" answers with one
\* res.json(...) or throws before it; "stream" may also throw after it has
\* begun to send the response.
APIObject(m, props, auth, tier, kt, mws) ==
    [method |-> m, props |-> props, authorization |-> auth,
     rateLimit |-> tier, keyType |-> kt, middlewares |-> mws, handler |-> "json"]

\* type method, and so the functions an Express router has
Methods == {"get", "post", "put", "patch", "delete"}

\* Endpoint modules as the repository declares them.
engagementRouter ==
    [path |-> "/engagement",
     functions |-> <<
        APIObject("post", "/process", "required", "strict", "user",
                  <<RoleGuard({"teacher"})>>),
        APIObject("post", "/webhook", "none", "strict", "ip", <<>>) >>]

meRouter ==
    [path |-> "/me",
     functions |-> << APIObject("get", NoProps, "required", "strict", "default", <<>>) >>]

generateQuizRouter ==
    [path |-> "/generate-quiz",
     functions |-> <<
        APIObject("post", NoProps, "required", "strict", "user",
                  <<RoleGuard({"teacher"}), Upload>>) >>]

\* Endpoint modules the type RouterObject admits and the repository does not
\* (yet) contain: a path declared twice, keyType "user" without required
\* authorization.
dupRouter ==
    [path |-> "/auth",
     functions |-> <<
        APIObject("post", "/login", "none", "strict", "default", <<>>),
        APIObject("post", "/login", "required", "gameplay", "user",
                  <<RoleGuard({"student"})>>) >>]

userKeyRouter ==
    [path |-> "/feed",
     functions |-> <<
        APIObject("get", NoProps, "optional", "gameplay", "user", <<>>),
        APIObject("get", "/public", "none", "strict", "user", <<>>) >>]

\* A role guard on an endpoint that does not require authentication.
openGuardRouter ==
    [path |-> "/staff",
     functions |-> <<
        APIObject("get", NoProps, "optional", "read", "default",
                  <<RoleGuard({"teacher"})>>) >>]

\* Further endpoint modules the type admits: optional authentication with the
\* default key, and a handler that streams its answer.
catalogRouter ==
    [path |-> "/catalog",
     functions |-> << APIObject("get", NoProps, "optional", "read", "default", <<>>) >>]

exportRouter ==
    [path |-> "/export",
     functions |-> <<
        [APIObject("get", NoProps, "required", "read", "default", <<>>)
            EXCEPT !.handler = "stream"] >>]

\* Endpoints keyed by address and by default that see requests with and
\* without a user.
visitsRouter ==
    [path |-> "/visits",
     functions |-> <<
        APIObject("get", NoProps, "optional", "read", "ip", <<>>),
        APIObject("get", "/mine", "optional", "read", "default", <<>>) >>]

\* Directory entries whose registration throws: a file that import() rejects
\* (a syntax error, a missing dependency, no default export), and a module
\* whose second endpoint names a method the router has no function for.
unloadableModule == [path |-> Undefined, functions |-> <<>>]

badMethodRouter ==
    [path |-> "/reports",
     functions |-> <<
        APIObject("get", NoProps, "none", "read", "ip", <<>>),
        APIObject("fetch", "/all", "none", "read", "ip", <<>>) >>]

---------------------------------------------------------------------------
(* errors/AppError.ts, errors/httpErrors.ts *)

AppError(message, statusCode, code) ==
    [isApp |-> TRUE, statusCode |-> statusCode, code |-> code, message |-> message]

BadRequestError(message)   == AppError(message, 400, "BAD_REQUEST")
UnauthorizedError(message) == AppError(message, 401, "UNAUTHORIZED")
ForbiddenError(message)    == AppError(message, 403, "FORBIDDEN")
NotFoundError(message)     == AppError(message, 404, "NOT_FOUND")

\* A thrown value that is no AppError (TypeError, a database error, ...).
PlainError(message) ==
    [isApp |-> FALSE, statusCode |-> 0, code |-> Undefined, message |-> message]

NoError == [isApp |-> FALSE, statusCode |-> 0, code |-> Undefined, message |-> ""]

---------------------------------------------------------------------------
(* middlewares/errorHandler.ts *)

\* A response: status, the code and message of its body, the shape of the body
\* ("error" is the JSON object {error: {code, message}}) and who wrote it.
NoResponse ==
    [status |-> 0, code |-> Undefined, message |-> "", body |-> "none",
     writer |-> "nobody"]

\* res.headersSent
headersSent(res) == res.writer # "nobody"

\* errorHandler with a plausible slip: the failure's own message goes out.
errorHandlerLeaky(res, err) ==
    IF headersSent(res) THEN res
    ELSE IF ~err.isApp
    THEN [status |-> 500, code |-> "INTERNAL_ERROR",
          message |-> err.message, body |-> "error", writer |-> "errorHandler"]
    ELSE [status |-> err.statusCode, code |-> err.code,
          message |-> err.message, body |-> "error", writer |-> "errorHandler"]

\* errorHandler without its first test: it answers whatever was sent before.
errorHandlerWritesAgain(res, err) ==
    IF ~err.isApp
    THEN [status |-> 500, code |-> "INTERNAL_ERROR",
          message |-> "Something went wrong", body |-> "error",
          writer |-> "errorHandler"]
    ELSE [status |-> err.statusCode, code |-> err.code,
          message |-> err.message, body |-> "error", writer |-> "errorHandler"]

\* errorHandler(err, req, res, next): the response after it.  When the headers
\* are already sent it writes nothing and calls next(err); Express's final
\* handler then only closes the connection.
errorHandler(res, err) ==
    IF headersSent(res) THEN res
    ELSE IF ~err.isApp
    THEN [status |-> 500, code |-> "INTERNAL_ERROR",
          message |-> "Something went wrong", body |-> "error",
          writer |-> "errorHandler"]
    ELSE [status |-> err.statusCode, code |-> err.code,
          message |-> err.message, body |-> "error", writer |-> "errorHandler"]

---------------------------------------------------------------------------
(* lib/verifyJwt.ts and lib/auth.ts *)

NoUser == [present |-> FALSE, id |-> Undefined, role |-> Undefined]

Tokens == {"tTeacher", "tStudent", "tNoRole", "tNoSub", "tExpired"}

\* jose's jwtVerify: the payload of a token that verifies, or a throw.
jwtVerify(token) ==
    CASE token = "tTeacher" -> [ok |-> TRUE, sub |-> "u1", role |-> "teacher"]
      [] token = "tStudent" -> [ok |-> TRUE, sub |-> "u2", role |-> "student"]
      [] token = "tNoRole"  -> [ok |-> TRUE, sub |-> "u3", role |-> Undefined]
      [] token = "tNoSub"   -> [ok |-> TRUE, sub |-> Undefined, role |-> "teacher"]
      [] OTHER              -> [ok |-> FALSE, sub |-> Undefined, role |-> Undefined]

\* verifyJwt with a plausible slip: the subject is not looked at.
verifyJwtAnySubject(token) ==
    LET r == jwtVerify(token) IN
    IF ~r.ok
    THEN [ok |-> FALSE, user |-> NoUser]
    ELSE [ok |-> TRUE, user |-> [present |-> TRUE, id |-> r.sub, role |-> r.role]]

verifyJwt(token) ==
    LET r == jwtVerify(token) IN
    IF ~r.ok \/ r.sub = Undefined
    THEN [ok |-> FALSE, user |-> NoUser]
    ELSE [ok |-> TRUE, user |-> [present |-> TRUE, id |-> r.sub, role |-> r.role]]

\* createRemoteJWKSet (jose): the keys are fetched from the identity provider
\* when they are not cached; the fetch is aborted after timeoutDuration (jose's
\* default, 5 s, well below windowMs) and jwtVerify then rejects.  A run's
\* key set is "cached" (no fetch is needed) or "flaky" (a fetch may go
\* unanswered).

\* An Authorization header is absent (<<>>) or <<scheme prefix, rest>>.
NoHeader == <<>>
Headers ==
    {NoHeader, <<"Basic ", "abc">>} \cup {<<"Bearer ", t>> : t \in Tokens}

startsWithBearer(authHeader) == Len(authHeader) > 0 /\ authHeader[1] = "Bearer "

\* What the middleware did: failed with err (next(err)) or passed, with the
\* user it attached; called tells whether it called verifyJwt.
authPass(user) == [failed |-> FALSE, err |-> NoError, user |-> user, called |-> FALSE]
authFail(err)  == [failed |-> TRUE, err |-> err, user |-> NoUser, called |-> FALSE]
Called(a) == [a EXCEPT !.called = TRUE]

\* The catch around "await verifyJwt(...)": authHandler's answer to a verifier
\* that threw, whatever it threw.
catchVerifyFailOpen(authType) == Called(authPass(NoUser))

catchVerify(authType) ==
    IF authType = "required"
    THEN Called(authFail(UnauthorizedError("Invalid or expired token")))
    ELSE Called(authPass(NoUser))

\* authHandler with a plausible slip: "required" handled like "optional".
authHandlerLenient(authType, authHeader) ==
    IF authType = "none" THEN authPass(NoUser)
    ELSE IF startsWithBearer(authHeader)
    THEN LET v == verifyJwt(authHeader[2]) IN
         IF v.ok THEN Called(authPass(v.user)) ELSE Called(authPass(NoUser))
    ELSE authPass(NoUser)

\* authHandler with a plausible slip: every bearer token is verified, also
\* where the endpoint asks for no authentication.
authHandlerEager(authType, authHeader) ==
    IF authType = "required" /\ ~startsWithBearer(authHeader)
    THEN authFail(UnauthorizedError("Authentication required"))
    ELSE IF startsWithBearer(authHeader)
    THEN LET v == verifyJwt(authHeader[2]) IN
         IF v.ok THEN Called(authPass(v.user)) ELSE catchVerify(authType)
    ELSE authPass(NoUser)

\* authHandler with a plausible slip: "optional" refuses a bad token.
authHandlerPicky(authType, authHeader) ==
    IF authType = "required" /\ ~startsWithBearer(authHeader)
    THEN authFail(UnauthorizedError("Authentication required"))
    ELSE IF authType # "none" /\ startsWithBearer(authHeader)
    THEN LET v == verifyJwt(authHeader[2]) IN
         IF v.ok THEN Called(authPass(v.user)) ELSE catchVerify("required")
    ELSE authPass(NoUser)

\* Does authHandler(authType) await verifyJwt for a request with this header?
awaitsVerifyJwt(authType, authHeader) ==
    authType \in {"required", "optional"} /\ startsWithBearer(authHeader)

authHandler(authType, authHeader) ==
    IF authType = "required"
    THEN IF ~startsWithBearer(authHeader)
         THEN authFail(UnauthorizedError("Authentication required"))
         ELSE LET v == verifyJwt(authHeader[2]) IN
              IF v.ok THEN Called(authPass(v.user)) ELSE catchVerify(authType)
    ELSE IF authType = "optional"
    THEN IF startsWithBearer(authHeader)
         THEN LET v == verifyJwt(authHeader[2]) IN
              IF v.ok THEN Called(authPass(v.user)) ELSE catchVerify(authType)
         ELSE authPass(NoUser)
    ELSE authPass(NoUser)

---------------------------------------------------------------------------
(* lib/requireRole.ts *)

guardPass == [failed |-> FALSE, err |-> NoError]

\* requireRole with a plausible slip: any role is enough.
requireRoleAnyRole(roles, user) ==
    IF ~user.present \/ user.role = Undefined
    THEN [failed |-> TRUE, err |-> ForbiddenError("Access denied")]
    ELSE guardPass

requireRole(roles, user) ==
    IF ~user.present \/ user.role = Undefined
    THEN [failed |-> TRUE, err |-> ForbiddenError("Access denied")]
    ELSE IF user.role \notin roles
    THEN [failed |-> TRUE, err |-> ForbiddenError("Access denied. Required role")]
    ELSE guardPass

---------------------------------------------------------------------------
(* lib/rateLimiter.ts *)

limits ==
    [strict   |-> [windowMs |-> WindowTicks, max |-> StrictMax],
     gameplay |-> [windowMs |-> WindowTicks, max |-> GameplayMax],
     read     |-> [windowMs |-> WindowTicks, max |-> ReadMax]]

Tiers == {"strict", "gameplay", "read"}

\* Client addresses: hi is the leading part of the address (the first 56 bits
\* of an IPv6 address), lo the rest.
ip4 == [fam |-> 4, hi |-> "198.51.100.", lo |-> "7"]
ip6 == [fam |-> 6, hi |-> "2001:db8:0:100", lo |-> "::1"]
ip6b == [fam |-> 6, hi |-> "2001:db8:0:100", lo |-> "::2"]
IPs == {ip4, ip6, ip6b}

\* express-rate-limit's ipKeyGenerator(ip, 56): an IPv4 address as it is, an
\* IPv6 address as its /56 network.
ipKeyGenerator(ip) ==
    IF ip.fam = 6 THEN ip.hi \o "::/56" ELSE ip.hi \o ip.lo

\* keyGenerator with a plausible slip: the user id wherever there is a user.
keyGeneratorUserFirst(keyType, user, ip) ==
    IF keyType = "user"
    THEN IF user.present
         THEN [threw |-> FALSE, key |-> user.id]
         ELSE [threw |-> TRUE, key |-> Undefined]
    ELSE IF user.present
         THEN [threw |-> FALSE, key |-> user.id]
         ELSE [threw |-> FALSE, key |-> ipKeyGenerator(ip)]

keyGenerator(keyType, user, ip) ==
    IF keyType = "user"
    THEN IF user.present
         THEN [threw |-> FALSE, key |-> user.id]
         ELSE [threw |-> TRUE, key |-> Undefined]     \* req.user!.id on undefined
    ELSE IF keyType = "ip"
    THEN [threw |-> FALSE, key |-> ipKeyGenerator(ip)]
    ELSE IF user.present
         THEN [threw |-> FALSE, key |-> user.id]
         ELSE [threw |-> FALSE, key |-> ipKeyGenerator(ip)]

\* MemoryStore.increment(key) at time t of a store with window w.
getClient(st, key, t, w) ==
    IF key \in DOMAIN st THEN st[key] ELSE [totalHits |-> 0, resetTime |-> t + w]

\* increment with a plausible slip: the comparison with resetTime reversed,
\* so that a live window is restarted by every hit.
incrementRestarts(st, key, t, w) ==
    LET c  == getClient(st, key, t, w)
        c1 == IF c.resetTime >= t THEN [totalHits |-> 0, resetTime |-> t + w] ELSE c
    IN  (key :> [c1 EXCEPT !.totalHits = @ + 1]) @@ st

\* increment as a store with one window for all keys does it: when the
\* window is over, every client is dropped.
incrementResetAll(st, key, t, w) ==
    LET c == getClient(st, key, t, w) IN
    IF c.resetTime <= t
    THEN (key :> [totalHits |-> 1, resetTime |-> t + w])
    ELSE (key :> [c EXCEPT !.totalHits = @ + 1]) @@ st

\* increment with a plausible slip: a window that is exactly w old is kept.
incrementKeepsAtEnd(st, key, t, w) ==
    LET c  == getClient(st, key, t, w)
        c1 == IF c.resetTime < t THEN [totalHits |-> 0, resetTime |-> t + w] ELSE c
    IN  (key :> [c1 EXCEPT !.totalHits = @ + 1]) @@ st

\* increment as a sliding limiter does it: every hit in a live window moves
\* the window's end.
incrementExtends(st, key, t, w) ==
    LET c  == getClient(st, key, t, w)
        c1 == IF c.resetTime <= t THEN [totalHits |-> 0, resetTime |-> t + w] ELSE c
    IN  (key :> [totalHits |-> c1.totalHits + 1, resetTime |-> t + w]) @@ st

increment(st, key, t, w) ==
    LET c  == getClient(st, key, t, w)
        c1 == IF c.resetTime <= t THEN [totalHits |-> 0, resetTime |-> t + w] ELSE c
    IN  (key :> [c1 EXCEPT !.totalHits = @ + 1]) @@ st

\* overLimit, off by one.
overLimitAtMax(totalHits, max) == totalHits >= max

\* The limiter's decision on the hit count increment() returned.
overLimit(totalHits, max) == totalHits > max

\* The limiter's own answer: res.status(429).send(message), message a string.
tooManyRequests ==
    [status |-> 429, code |-> Undefined,
     message |-> "Too many requests, please try again later.", body |-> "text",
     writer |-> "rateLimit"]

---------------------------------------------------------------------------
(* History of the counting windows, kept beside the program's state: a     *)
(* window of a key starts with the first request counted for the key, or   *)
(* with the first one at least w after the start of the key's last window. *)
(* n counts the window's requests, adm those of them that were admitted,   *)
(* prev is n of the key's window before this one.                          *)

countInWindow(h, key, t, w, admitted) ==
    LET a == IF admitted THEN 1 ELSE 0 IN
    IF key \in DOMAIN h /\ t < h[key].start + w
    THEN (key :> [h[key] EXCEPT !.n = @ + 1, !.adm = @ + a]) @@ h
    ELSE (key :> [start |-> t, n |-> 1, adm |-> a,
                  prev |-> IF key \in DOMAIN h THEN h[key].n ELSE 0]) @@ h

---------------------------------------------------------------------------
(* lib/routeHandler.ts *)

\* fullPath with a plausible slip: the "?? \"\"" left out.
fullPathNoDefault(routerObj, obj) ==
    routerObj.path \o (IF obj.props = NoProps THEN Undefined ELSE obj.props)

fullPath(routerObj, obj) ==
    routerObj.path \o (IF obj.props = NoProps THEN "" ELSE obj.props)

RouteEntry(routerObj, obj) ==
    [method |-> obj.method, path |-> fullPath(routerObj, obj),
     authorization |-> obj.authorization, rateLimit |-> obj.rateLimit,
     keyType |-> obj.keyType, middlewares |-> obj.middlewares,
     handler |-> obj.handler]

\* await import(moduleUrl), module.default
importThrows(m) == m = unloadableModule

\* The loop over routerObj.functions from the k-th on: the router after it,
\* and whether it threw (router[obj.method] is no function).  What was
\* installed before the throw stays on the router.
RECURSIVE installAll(_, _, _)
installAll(rt, routerObj, k) ==
    IF k > Len(routerObj.functions) THEN [threw |-> FALSE, router |-> rt]
    ELSE IF routerObj.functions[k].method \notin Methods
    THEN [threw |-> TRUE, router |-> rt]
    ELSE installAll(Append(rt, RouteEntry(routerObj, routerObj.functions[k])),
                    routerObj, k + 1)

\* One pass of the loop over the directory.
registerModule(rt, m) ==
    IF importThrows(m) THEN [threw |-> TRUE, router |-> rt]
    ELSE installAll(rt, m, 1)

\* routesHandler() on a directory, from its k-th entry on: the router it
\* returns, or threw when an entry's registration threw.
RECURSIVE routesHandler(_, _, _)
routesHandler(rt, dir, k) ==
    IF k > Len(dir) THEN [threw |-> FALSE, router |-> rt]
    ELSE LET reg == registerModule(rt, dir[k]) IN
         IF reg.threw THEN reg ELSE routesHandler(reg.router, dir, k + 1)

EmptyStore == <<>>

\* Express dispatch: the first installed entry with the request's method and
\* path (0 when none matches).
Match(rt, method, path) ==
    LET hits == {i \in 1..Len(rt) : rt[i].method = method /\ rt[i].path = path}
    IN  IF hits = {} THEN 0 ELSE CHOOSE i \in hits : \A j \in hits : i <= j

---------------------------------------------------------------------------
(* The runs the model explores: a directory of endpoint modules, the       *)
(* clients that exist, the number of requests and how many are in flight   *)
(* at a time.                                                              *)

Client(header, ip) == [header |-> header, ip |-> ip]

\* Every kind of credential against the repository's endpoints.
SweepWorld ==
    [directory |-> << engagementRouter, meRouter >>,
     clients |-> {Client(h, ip4) : h \in Headers},
     requests |-> SweepRequests, inflight |-> 1, jwks |-> "cached"]

\* One user spending a quota and waiting for the next window.
QuotaWorld ==
    [directory |-> << engagementRouter, meRouter >>,
     clients |-> {Client(<<"Bearer ", "tTeacher">>, ip4)},
     requests |-> QuotaRequests, inflight |-> 1, jwks |-> "cached"]

\* A burst of concurrent requests of two users from two addresses.
BurstWorld ==
    [directory |-> << generateQuizRouter >>,
     clients |-> {Client(<<"Bearer ", "tTeacher">>, ip4),
                  Client(<<"Bearer ", "tStudent">>, ip6)},
     requests |-> BurstRequests, inflight |-> MaxInFlight, jwks |-> "cached"]

\* A directory with a path declared twice, keyType "user" without required
\* authorization and a role guard without required authorization.
FaultWorld ==
    [directory |-> << dupRouter, userKeyRouter, openGuardRouter >>,
     clients |-> {Client(NoHeader, ip6), Client(<<"Bearer ", "tStudent">>, ip4)},
     requests |-> FaultRequests, inflight |-> 1, jwks |-> "cached"]

\* Every kind of credential against an endpoint with optional authentication.
GuestWorld ==
    [directory |-> << catalogRouter >>,
     clients |-> {Client(h, ip4) : h \in Headers},
     requests |-> GuestRequests, inflight |-> 1, jwks |-> "cached"]

\* The identity provider answers the key fetch or not; one of the handlers
\* streams its answer.
StallWorld ==
    [directory |-> << engagementRouter, exportRouter >>,
     clients |-> {Client(<<"Bearer ", "tTeacher">>, ip4)},
     requests |-> StallRequests, inflight |-> 1, jwks |-> "flaky"]

\* Users and anonymous clients, two of them in one IPv6 /56 network.
KeyWorld ==
    [directory |-> << visitsRouter >>,
     clients |-> {Client(NoHeader, ip6), Client(<<"Bearer ", "tStudent">>, ip6b),
                  Client(<<"Bearer ", "tTeacher">>, ip4)},
     requests |-> KeyRequests, inflight |-> 1, jwks |-> "cached"]

\* Directories with an entry whose registration throws.
LoadFailWorld ==
    [directory |-> << meRouter, unloadableModule, catalogRouter >>,
     clients |-> {Client(NoHeader, ip4)},
     requests |-> StallRequests, inflight |-> 1, jwks |-> "cached"]

BadDeclWorld ==
    [directory |-> << meRouter, badMethodRouter >>,
     clients |-> {Client(NoHeader, ip4)},
     requests |-> StallRequests, inflight |-> 1, jwks |-> "cached"]

Worlds ==
    {SweepWorld, QuotaWorld, BurstWorld, FaultWorld, GuestWorld, StallWorld,
     KeyWorld, LoadFailWorld, BadDeclWorld}

---------------------------------------------------------------------------
(* Requests *)

Idle ==
    [pc |-> "idle", method |-> "", path |-> "", header |-> NoHeader,
     ip |-> CHOOSE a \in IPs : TRUE, route |-> 0, user |-> NoUser, g |-> 0,
     ran |-> <<>>, key |-> Undefined, hitNo |-> 0, tierNo |-> 0, res |-> NoResponse,
     err |-> NoError, verified |-> FALSE, out |-> "none"]

\* What a request may ask for: an installed (method, path), or one that no
\* entry matches.
Targets(rt) ==
    {<<rt[i].method, rt[i].path>> : i \in 1..Len(rt)} \cup {<<"get", "/nowhere">>}

Respond(r, res) == [r EXCEPT !.pc = "done", !.res = res]

\* Fail without tryCatch around an async handler: nobody hears of err.
FailUnnoticed(r, err) == [r EXCEPT !.pc = "done", !.err = err]

\* A stage failed with err (threw, or called next(err)): errorHandler is next.
Fail(r, err) == [r EXCEPT !.pc = "done", !.err = err, !.res = errorHandler(@, err)]

\* The collections before any of the modelled handlers has run.
EmptyDb == [quizResults |-> <<>>, studyTopics |-> <<>>]

InitIn(ws) ==
    /\ phase = "registering"
    /\ loaded = 0
    /\ \E w \in ws :
         /\ directory = w.directory
         /\ clients = w.clients
         /\ load = [requests |-> w.requests, inflight |-> w.inflight, jwks |-> w.jwks]
    /\ router = <<>>
    /\ store = <<>>
    /\ now = 0
    /\ reqs = [s \in Slots |-> Idle]
    /\ nreq = 0
    /\ hist = <<>>
    /\ tierHist = [t \in Tiers |-> <<>>]
    /\ db = EmptyDb
    /\ jobs = <<>>

Init == InitIn(Worlds)

\* routesHandler with its catch changed to log and go on with the next file.
RegisterModuleSkipsFailure ==
    /\ phase = "registering"
    /\ loaded < Len(directory)
    /\ LET reg == registerModule(router, directory[loaded + 1])
           rt == reg.router
       IN /\ router' = rt
          /\ store' = [i \in 1..Len(rt) |-> IF i <= Len(store) THEN store[i] ELSE EmptyStore]
          /\ hist' = [i \in 1..Len(rt) |-> IF i <= Len(hist) THEN hist[i] ELSE <<>>]
          /\ phase' = phase
          /\ loaded' = loaded + 1
    /\ UNCHANGED <<directory, clients, load, now, reqs, nreq, tierHist, db, jobs>>

\* routesHandler, one endpoint module: import it and install its endpoints,
\* each with a limiter (and so a store) of its own.  When that throws,
\* routesHandler logs and rethrows, the top-level await of app.ts rejects and
\* the process ends without having mounted anything.
RegisterModule ==
    /\ phase = "registering"
    /\ loaded < Len(directory)
    /\ LET reg == registerModule(router, directory[loaded + 1])
           rt == reg.router
       IN /\ router' = rt
          /\ store' = [i \in 1..Len(rt) |-> IF i <= Len(store) THEN store[i] ELSE EmptyStore]
          /\ hist' = [i \in 1..Len(rt) |-> IF i <= Len(hist) THEN hist[i] ELSE <<>>]
          /\ phase' = IF reg.threw THEN "aborted" ELSE phase
          /\ loaded' = IF reg.threw THEN loaded ELSE loaded + 1
    /\ UNCHANGED <<directory, clients, load, now, reqs, nreq, tierHist, db, jobs>>

\* app.ts with the router mounted before routesHandler is through (the await
\* forgotten, or the registration done in the background).
MountWithoutAwait ==
    /\ phase = "registering"
    /\ loaded >= 1
    /\ phase' = "serving"
    /\ UNCHANGED <<loaded, directory, clients, load, router, store, now, reqs, nreq, hist, tierHist, db, jobs>>

\* app.ts: routesHandler has returned; mount the router, the 404 catch-all
\* and errorHandler.
Mount ==
    /\ phase = "registering"
    /\ loaded = Len(directory)
    /\ phase' = "serving"
    /\ UNCHANGED <<loaded, directory, clients, load, router, store, now, reqs, nreq, hist, tierHist, db, jobs>>

\* A request arrives and is dispatched.
Arrive(s) ==
    /\ phase = "serving"
    /\ nreq < load.requests
    /\ s <= load.inflight
    /\ reqs[s].pc = "idle"
    /\ \A s2 \in Slots : s2 < s => reqs[s2].pc # "idle"
    /\ \E t \in Targets(router), c \in clients :
         LET i == Match(router, t[1], t[2])
             r == [Idle EXCEPT !.method = t[1], !.path = t[2], !.header = c.header,
                                !.ip = c.ip,
                                !.route = i]
         IN reqs' = [reqs EXCEPT ![s] =
                IF i = 0
                THEN Fail(r, NotFoundError("Not found"))
                ELSE [r EXCEPT !.pc = "auth"]]
    /\ nreq' = nreq + 1
    /\ UNCHANGED <<phase, loaded, directory, clients, load, router, store, now, hist, tierHist, db, jobs>>

\* What authHandler's outcome a makes of request r.
Authenticated(r, a) ==
    IF a.failed THEN Fail(r, a.err)
    ELSE [r EXCEPT !.pc = "limit", !.user = a.user]

\* authHandler behind a limiter that counts, by address, the requests whose
\* authentication fails.
AuthCountsFailures(s) ==
    /\ reqs[s].pc = "auth"
    /\ LET r == reqs[s]
           e == router[r.route]
           a == authHandler(e.authorization, r.header)
           r1 == [r EXCEPT !.ran = Append(@, "auth"), !.verified = a.called]
       IN /\ reqs' = [reqs EXCEPT ![s] = Authenticated(r1, a)]
          /\ store' = IF a.failed
                      THEN [store EXCEPT ![r.route] =
                               increment(@, ipKeyGenerator(r.ip), now,
                                         limits[e.rateLimit].windowMs)]
                      ELSE store
    /\ UNCHANGED <<phase, loaded, directory, clients, load, router, now, nreq, hist, tierHist, db, jobs>>

\* authHandler(obj.authorization): to its end when verifyJwt is not awaited
\* or answers; up to "await verifyJwt(...)" when the keys have to be fetched
\* and the identity provider does not answer.
Auth(s) ==
    /\ reqs[s].pc = "auth"
    /\ LET r == reqs[s]
           authType == router[r.route].authorization
           a == authHandler(authType, r.header)
           r1 == [r EXCEPT !.ran = Append(@, "auth"), !.verified = a.called]
       IN \/ reqs' = [reqs EXCEPT ![s] = Authenticated(r1, a)]
          \/ /\ load.jwks = "flaky"
             /\ awaitsVerifyJwt(authType, r.header)
             /\ reqs' = [reqs EXCEPT ![s] = [r1 EXCEPT !.pc = "verifying"]]
    /\ UNCHANGED <<phase, loaded, directory, clients, load, router, store, now, nreq, hist, tierHist, db, jobs>>

\* A key fetch that is never answered.
JwksHangs(s) ==
    /\ FALSE
    /\ UNCHANGED vars

\* jose aborts the key fetch after timeoutDuration; jwtVerify rejects, and
\* authHandler goes on in its catch.
JwksTimeout(s) ==
    /\ reqs[s].pc = "verifying"
    /\ reqs' = [reqs EXCEPT ![s] =
                  Authenticated(reqs[s], catchVerify(router[reqs[s].route].authorization))]
    /\ UNCHANGED <<phase, loaded, directory, clients, load, router, store, now, nreq, hist, tierHist, db, jobs>>

NextStage(r, e) ==
    IF r.g < Len(e.middlewares)
    THEN [r EXCEPT !.pc = "guard", !.g = @ + 1]
    ELSE [r EXCEPT !.pc = "handler"]

\* rateLimiter.limit(obj.rateLimit, obj.keyType)
Limit(s) ==
    /\ reqs[s].pc = "limit"
    /\ LET r == reqs[s]
           e == router[r.route]
           lim == limits[e.rateLimit]
           k == keyGenerator(e.keyType, r.user, r.ip)
           r1 == [r EXCEPT !.ran = Append(@, "limit")]
       IN IF k.threw
          THEN /\ reqs' = [reqs EXCEPT ![s] =
                     Fail(r1, PlainError("Cannot read properties of undefined"))]
               /\ UNCHANGED <<store, hist, tierHist>>
          ELSE LET st == increment(store[r.route], k.key, now, lim.windowMs)
                   ok == ~overLimit(st[k.key].totalHits, lim.max)
                   h  == countInWindow(hist[r.route], k.key, now, lim.windowMs, ok)
                   th == countInWindow(tierHist[e.rateLimit], k.key, now, lim.windowMs, ok)
                   r2 == [r1 EXCEPT !.key = k.key, !.hitNo = h[k.key].n,
                                    !.tierNo = th[k.key].n]
               IN /\ store' = [store EXCEPT ![r.route] = st]
                  /\ hist' = [hist EXCEPT ![r.route] = h]
                  /\ tierHist' = [tierHist EXCEPT ![e.rateLimit] = th]
                  /\ reqs' = [reqs EXCEPT ![s] =
                        IF ok THEN NextStage(r2, e)
                        ELSE Respond(r2, tooManyRequests)]
    /\ UNCHANGED <<phase, loaded, directory, clients, load, router, now, nreq, db, jobs>>

\* multer's upload.single("file"): the body is taken as it is (no file, or a
\* file of an allowed type), or fileFilter refuses the file with a plain Error.
UploadOutcomes == {"accepted", "unsupported"}

upload(o) ==
    IF o = "unsupported"
    THEN [failed |-> TRUE, err |-> PlainError("Unsupported file type")]
    ELSE guardPass

\* obj.middlewares behind a limiter with skipFailedRequests: the hit of a
\* request that a middleware refuses is taken back.
GuardRefundsFailed(s) ==
    /\ reqs[s].pc = "guard"
    /\ \E o \in UploadOutcomes :
         LET r == reqs[s]
             e == router[r.route]
             mw == e.middlewares[r.g]
             c == IF mw.kind = "requireRole" THEN requireRole(mw.roles, r.user)
                  ELSE upload(o)
             r1 == [r EXCEPT !.ran = Append(@, mw.kind)]
         IN /\ reqs' = [reqs EXCEPT ![s] =
                   IF c.failed THEN Fail(r1, c.err)
                   ELSE NextStage(r1, e)]
            /\ store' = IF c.failed
                        THEN [store EXCEPT ![r.route][r.key].totalHits = @ - 1]
                        ELSE store
    /\ UNCHANGED <<phase, loaded, directory, clients, load, router, now, nreq, hist, tierHist, db, jobs>>

\* One of obj.middlewares.
Guard(s) ==
    /\ reqs[s].pc = "guard"
    /\ \E o \in UploadOutcomes :
         LET r == reqs[s]
             e == router[r.route]
             mw == e.middlewares[r.g]
             c == IF mw.kind = "requireRole" THEN requireRole(mw.roles, r.user)
                  ELSE upload(o)
             r1 == [r EXCEPT !.ran = Append(@, mw.kind)]
         IN reqs' = [reqs EXCEPT ![s] =
                IF c.failed THEN Fail(r1, c.err)
                ELSE NextStage(r1, e)]
    /\ UNCHANGED <<phase, loaded, directory, clients, load, router, store, now, nreq, hist, tierHist, db, jobs>>

\* What a handler of a kind can do: answer, throw an AppError, throw
\* something else, or (streaming) throw after the headers have gone out.
HandlerOutcomes(kind) ==
    {"ok", "badRequest", "crash"} \cup (IF kind = "stream" THEN {"partial"} ELSE {})

\* What the handler itself writes: res.json(...), or the beginning of a stream.
Answer ==
    [status |-> 200, code |-> Undefined, message |-> "", body |-> "json",
     writer |-> "handler"]
StreamBegun ==
    [status |-> 200, code |-> Undefined, message |-> "", body |-> "partial",
     writer |-> "handler"]

\* tryCatch(obj.handler): the handler answers, or throws and tryCatch passes
\* the error on.
Handler(s) ==
    /\ reqs[s].pc = "handler"
    /\ \E o \in HandlerOutcomes(router[reqs[s].route].handler) :
         LET r1 == [reqs[s] EXCEPT !.ran = Append(@, "handler"), !.out = o]
         IN reqs' = [reqs EXCEPT ![s] =
                CASE o = "ok" -> Respond(r1, Answer)
                  [] o = "badRequest" -> Fail(r1, BadRequestError("Bad request"))
                  [] o = "crash" -> Fail(r1, PlainError("database unavailable"))
                  [] OTHER -> Fail([r1 EXCEPT !.res = StreamBegun],
                                   PlainError("read ECONNRESET"))]
    /\ UNCHANGED <<phase, loaded, directory, clients, load, router, store, now, nreq, hist, tierHist, db, jobs>>

\* The response has gone out; the slot is free again.
Finish(s) ==
    /\ reqs[s].pc = "done"
    /\ reqs' = [reqs EXCEPT ![s] = Idle]
    /\ UNCHANGED <<phase, loaded, directory, clients, load, router, store, now, nreq, hist, tierHist, db, jobs>>

Tick ==
    /\ now < MaxTime
    /\ now' = now + 1
    /\ UNCHANGED <<phase, loaded, directory, clients, load, router, store, reqs, nreq, hist, tierHist, db, jobs>>

Next ==
    \/ RegisterModule
    \/ Mount
    \/ Tick
    \/ \E s \in Slots : Arrive(s)
    \/ \E s \in Slots : Auth(s)
    \/ \E s \in Slots : JwksTimeout(s)
    \/ \E s \in Slots : Limit(s)
    \/ \E s \in Slots : Guard(s)
    \/ \E s \in Slots : Handler(s)
    \/ \E s \in Slots : Finish(s)

Spec == Init /\ [][Next]_vars

---------------------------------------------------------------------------
(* One limiter by itself: the middleware rateLimiter.limit("strict", ...)  *)
(* returns, called for keys at the times of the clock; jobs keeps, call by *)
(* call, the key, the time and the decision.                               *)

LimiterKeys == {"u1", "u2"}

InitWindow ==
    /\ phase = "serving"
    /\ loaded = 0
    /\ directory = <<>>
    /\ clients = {}
    /\ load = [requests |-> WindowHits, inflight |-> 1, jwks |-> "cached"]
    /\ router = <<>>
    /\ store = << EmptyStore >>
    /\ now = 0
    /\ reqs = [s \in Slots |-> Idle]
    /\ nreq = 0
    /\ hist = <<>>
    /\ tierHist = [t \in Tiers |-> <<>>]
    /\ db = EmptyDb
    /\ jobs = <<>>

\* The limiter middleware for a request with key k: count, then decide.
Hit(k) ==
    /\ nreq < load.requests
    /\ LET lim == limits["strict"]
           st == increment(store[1], k, now, lim.windowMs)
       IN /\ store' = << st >>
          /\ jobs' = Append(jobs, [key |-> k, t |-> now,
                                   admitted |-> ~overLimit(st[k].totalHits, lim.max)])
    /\ nreq' = nreq + 1
    /\ UNCHANGED <<phase, loaded, directory, clients, load, router, now, reqs, hist, tierHist, db>>

NextWindow ==
    \/ Tick
    \/ \E k \in LimiterKeys : Hit(k)

SpecWindow == InitWindow /\ [][NextWindow]_vars

---------------------------------------------------------------------------
(* routes/quiz.ts, POST /quiz/:quizId/submit: the handler by itself, for    *)
(* requests that passed authHandler, the limiter and requireRole. Its      *)
(* invocations run interleaved, one step per await; jobs keeps them.       *)

served == <<phase, loaded, directory, clients, load, router, store, now, reqs, nreq, hist, tierHist>>

Students == {"s1", "s2"}
QuizIds == {"q1", "q404"}
\* The Quiz collection; the handlers modelled here do not change it.
StoredQuizzes == {"q1"}
\* req.body.answers: no array, answers that are all correct, or some wrong
\* ones (weakTopics is not empty).
AnswerKinds == {"missing", "allRight", "someWrong"}
\* An operation on the database resolves, or rejects (connection lost, ...).
DbOutcomes == {"ok", "error"}

DbError == PlainError("database operation failed")
DuplicateKey == PlainError("E11000 duplicate key error")

Created ==
    [status |-> 201, code |-> Undefined, message |-> "Quiz submitted",
     body |-> "json", writer |-> "handler"]

\* The handler threw or rejected: tryCatch calls next(error), errorHandler
\* answers.
Throw(job, err) ==
    [job EXCEPT !.pc = "done", !.err = err, !.res = errorHandler(NoResponse, err)]

\* QuizResult.findOne({ quiz, student })
hasResult(coll, q, st) ==
    \E i \in 1..Len(coll) : coll[i].quiz = q /\ coll[i].student = st

\* save() on a collection without the unique index.
saveResultNoIndex(coll, doc) == [threw |-> FALSE, coll |-> Append(coll, doc)]

\* quizResult.save(): the unique index on (quiz, student) refuses a second
\* document of the pair.
saveResult(coll, doc) ==
    IF hasResult(coll, doc.quiz, doc.student)
    THEN [threw |-> TRUE, coll |-> coll]
    ELSE [threw |-> FALSE, coll |-> Append(coll, doc)]

\* A document of StudyTopic.insertMany: the schema's defaults.
NewTopic(id, st, q) ==
    [id |-> id, student |-> st, sourceQuiz |-> q, status |-> "pending",
     aiProgress |-> 0, completedAt |-> FALSE]

InitQuiz ==
    /\ phase = "serving"
    /\ loaded = 0
    /\ directory = <<>>
    /\ clients = {}
    /\ load = [requests |-> MaxSubmits, inflight |-> MaxSubmits, jwks |-> "cached"]
    /\ router = <<>>
    /\ store = <<>>
    /\ now = 0
    /\ reqs = [s \in Slots |-> Idle]
    /\ nreq = 0
    /\ hist = <<>>
    /\ tierHist = [t \in Tiers |-> <<>>]
    /\ db = EmptyDb
    /\ jobs = <<>>

\* The handler up to its first await: the check of req.body.answers.
Submit(st, q, ans) ==
    /\ Len(jobs) < MaxSubmits
    /\ LET job == [student |-> st, quiz |-> q, answers |-> ans, pc |-> "findById",
                   err |-> NoError, res |-> NoResponse, stored |-> FALSE,
                   topics |-> FALSE]
       IN jobs' = Append(jobs,
              IF ans = "missing"
              THEN Throw(job, BadRequestError("answers array is required"))
              ELSE job)
    /\ UNCHANGED <<served, db>>

\* await Quiz.findById(quizId)
FindQuiz(j) ==
    /\ jobs[j].pc = "findById"
    /\ \E o \in DbOutcomes :
         jobs' = [jobs EXCEPT ![j] =
             IF o = "error" THEN Throw(@, DbError)
             ELSE IF @.quiz \notin StoredQuizzes
             THEN Throw(@, NotFoundError("Quiz not found"))
             ELSE [@ EXCEPT !.pc = "findOne"]]
    /\ UNCHANGED <<served, db>>

\* await QuizResult.findOne({ quiz: quizId, student: studentId })
FindExisting(j) ==
    /\ jobs[j].pc = "findOne"
    /\ \E o \in DbOutcomes :
         jobs' = [jobs EXCEPT ![j] =
             IF o = "error" THEN Throw(@, DbError)
             ELSE IF hasResult(db.quizResults, @.quiz, @.student)
             THEN Throw(@, BadRequestError("Quiz already submitted"))
             ELSE [@ EXCEPT !.pc = "save"]]
    /\ UNCHANGED <<served, db>>

\* await quizResult.save(), and what follows it up to the next await.
SaveResult(j) ==
    /\ jobs[j].pc = "save"
    /\ \E o \in DbOutcomes :
         LET job == jobs[j]
             sv == saveResult(db.quizResults,
                              [quiz |-> job.quiz, student |-> job.student])
         IN IF o = "error"
            THEN /\ jobs' = [jobs EXCEPT ![j] = Throw(job, DbError)]
                 /\ db' = db
            ELSE IF sv.threw
            THEN /\ jobs' = [jobs EXCEPT ![j] = Throw(job, DuplicateKey)]
                 /\ db' = db
            ELSE /\ db' = [db EXCEPT !.quizResults = sv.coll]
                 /\ jobs' = [jobs EXCEPT ![j] =
                        IF job.answers = "someWrong"
                        THEN [job EXCEPT !.stored = TRUE, !.pc = "lecture"]
                        ELSE [job EXCEPT !.stored = TRUE, !.pc = "done",
                                         !.res = Created]]
    /\ UNCHANGED served

\* await Lecture.findById(quiz.lecture)
FindLecture(j) ==
    /\ jobs[j].pc = "lecture"
    /\ \E o \in DbOutcomes :
         jobs' = [jobs EXCEPT ![j] =
             IF o = "error" THEN Throw(@, DbError)
             ELSE [@ EXCEPT !.pc = "insertMany"]]
    /\ UNCHANGED <<served, db>>

\* await StudyTopic.insertMany(...).catch(() => {}), then the response.
InsertTopics(j) ==
    /\ jobs[j].pc = "insertMany"
    /\ \E o \in DbOutcomes :
         /\ db' = IF o = "error" THEN db
                  ELSE [db EXCEPT !.studyTopics =
                           Append(@, NewTopic(Len(@) + 1, jobs[j].student, jobs[j].quiz))]
         /\ jobs' = [jobs EXCEPT ![j] =
                [@ EXCEPT !.pc = "done", !.res = Created, !.topics = (o = "ok")]]
    /\ UNCHANGED served

NextQuiz ==
    \/ \E st \in Students, q \in QuizIds, ans \in AnswerKinds : Submit(st, q, ans)
    \/ \E j \in 1..Len(jobs) : FindQuiz(j)
    \/ \E j \in 1..Len(jobs) : FindExisting(j)
    \/ \E j \in 1..Len(jobs) : SaveResult(j)
    \/ \E j \in 1..Len(jobs) : FindLecture(j)
    \/ \E j \in 1..Len(jobs) : InsertTopics(j)

SpecQuiz == InitQuiz /\ [][NextQuiz]_vars

---------------------------------------------------------------------------
(* PATCH /study/topics/:topicId: the handler by itself, as above.          *)

TopicIds == {1, 2, 3}
StatusInputs == {"absent", "pending", "in-progress", "completed", "archived"}
\* req.body.aiProgress: absent, a number, or a value Math.max makes NaN of.
AiInputs ==
    {[kind |-> "absent", v |-> 0], [kind |-> "nan", v |-> 0]}
        \cup {[kind |-> "number", v |-> n] : n \in {0 - 5, 40, 150}}

MathMax(a, b) == IF a >= b THEN a ELSE b
MathMin(a, b) == IF a <= b THEN a ELSE b

\* The assignments of the handler to the loaded document, in their order.
\* nan: aiProgress became NaN.
assign(doc, status, ai) ==
    LET d1 == IF status = "absent" THEN doc
              ELSE IF status = "completed"
              THEN [doc EXCEPT !.status = status, !.completedAt = TRUE,
                               !.aiProgress = 100]
              ELSE [doc EXCEPT !.status = status]
    IN  IF ai.kind = "number"
        THEN [doc |-> [d1 EXCEPT !.aiProgress = MathMin(100, MathMax(0, ai.v))],
              nan |-> FALSE]
        ELSE [doc |-> d1, nan |-> ai.kind = "nan"]

\* topic.save(): the paths whose value changed since the document was
\* orig are written to the stored document.
write(stored, orig, doc) ==
    [stored EXCEPT
        !.status      = IF doc.status # orig.status THEN doc.status ELSE @,
        !.aiProgress  = IF doc.aiProgress # orig.aiProgress THEN doc.aiProgress ELSE @,
        !.completedAt = IF doc.completedAt # orig.completedAt THEN doc.completedAt ELSE @]

InitStudy ==
    /\ phase = "serving"
    /\ loaded = 0
    /\ directory = <<>>
    /\ clients = {}
    /\ load = [requests |-> MaxPatches, inflight |-> MaxPatches, jwks |-> "cached"]
    /\ router = <<>>
    /\ store = <<>>
    /\ now = 0
    /\ reqs = [s \in Slots |-> Idle]
    /\ nreq = 0
    /\ hist = <<>>
    /\ tierHist = [t \in Tiers |-> <<>>]
    /\ db = [quizResults |-> <<>>,
             studyTopics |-> <<NewTopic(1, "s1", "q1"), NewTopic(2, "s2", "q1")>>]
    /\ jobs = <<>>

\* The handler up to its await of StudyTopic.findOne.
Patch(st, id, status, ai) ==
    /\ Len(jobs) < MaxPatches
    /\ jobs' = Append(jobs,
           [student |-> st, topicId |-> id, status |-> status, aiProgress |-> ai,
            pc |-> "findOne", err |-> NoError, res |-> NoResponse,
            orig |-> NewTopic(0, st, ""), doc |-> NewTopic(0, st, ""),
            nan |-> FALSE])
    /\ UNCHANGED <<served, db>>

\* await StudyTopic.findOne({ _id: topicId, student: studentId }) and the
\* handler from there to its await of topic.save().
PatchFound(j) ==
    /\ jobs[j].pc = "findOne"
    /\ LET job == jobs[j]
           found == {i \in 1..Len(db.studyTopics) :
                        /\ db.studyTopics[i].id = job.topicId
                        /\ db.studyTopics[i].student = job.student}
       IN jobs' = [jobs EXCEPT ![j] =
              IF found = {} THEN Throw(job, NotFoundError("Study topic not found"))
              ELSE IF job.status \notin {"absent", "pending", "in-progress", "completed"}
              THEN Throw(job, BadRequestError("Invalid status"))
              ELSE LET topic == db.studyTopics[CHOOSE i \in found : TRUE]
                       a == assign(topic, job.status, job.aiProgress)
                   IN [job EXCEPT !.pc = "save", !.orig = topic, !.doc = a.doc,
                                  !.nan = a.nan]]
    /\ UNCHANGED <<served, db>>

\* await topic.save(), then res.json(...).
PatchSaved(j) ==
    /\ jobs[j].pc = "save"
    /\ LET job == jobs[j] IN
       IF job.nan
       THEN /\ jobs' = [jobs EXCEPT ![j] =
                   Throw(job, PlainError("StudyTopic validation failed: aiProgress"))]
            /\ db' = db
       ELSE /\ db' = [db EXCEPT !.studyTopics[job.topicId] =
                         write(@, job.orig, job.doc)]
            /\ jobs' = [jobs EXCEPT ![j] = [job EXCEPT !.pc = "done", !.res = Answer]]
    /\ UNCHANGED served

NextStudy ==
    \/ \E st \in Students, id \in TopicIds, status \in StatusInputs, ai \in AiInputs :
           Patch(st, id, status, ai)
    \/ \E j \in 1..Len(jobs) : PatchFound(j)
    \/ \E j \in 1..Len(jobs) : PatchSaved(j)

SpecStudy == InitStudy /\ [][NextStudy]_vars

---------------------------------------------------------------------------
\* The runs with a flaky identity provider: a pending timer of jose fires.
InitStall == InitIn({StallWorld})
SpecStall ==
    InitStall /\ [][Next]_vars /\ \A s \in Slots : WF_vars(JwksTimeout(s))

---------------------------------------------------------------------------
(* Properties *)

Entry(r) == router[r.route]
Max(r) == limits[Entry(r).rateLimit].max
Has(r, stage) == \E i \in 1..Len(r.ran) : r.ran[i] = stage
IsPrefix(a, b) == Len(a) <= Len(b) /\ \A i \in 1..Len(a) : a[i] = b[i]

\* The chain routesHandler installs for an entry, as stage names.
Chain(e) ==
    <<"auth", "limit">> \o [i \in 1..Len(e.middlewares) |-> e.middlewares[i].kind]
        \o <<"handler">>

\* The request is on an installed route and its authentication stage has run.
PastAuth(r) == r.route # 0 /\ r.pc \notin {"idle", "auth", "verifying"}
\* The request's rate-limit stage has run and derived a key.
Counted(r) == r.route # 0 /\ r.key # Undefined
\* The request's middleware j has run.
GuardActed(r, j) == r.route # 0 /\ (r.g > j \/ (r.g = j /\ r.pc # "guard"))

\* C1: on an endpoint with authorization "required", a request without an
\* Authorization header, or with one that does not start with "Bearer ", is
\* answered 401 by the authentication stage; the rate limiter, the guards and
\* the handler are not invoked for it.
C1_NoCredentialIs401 ==
    \A s \in Slots :
        LET r == reqs[s] IN
        (PastAuth(r) /\ Entry(r).authorization = "required"
            /\ ~startsWithBearer(r.header))
        => /\ r.pc = "done"
           /\ r.res.status = 401
           /\ r.res.code = "UNAUTHORIZED"
           /\ r.ran = <<"auth">>
           /\ r.key = Undefined /\ r.hitNo = 0

C1_Witness ==
    \E s \in Slots :
        /\ PastAuth(reqs[s])
        /\ Entry(reqs[s]).authorization = "required"
        /\ reqs[s].header = NoHeader
        /\ reqs[s].res.status = 401

\* C2: for a tier with max N and window W and one key of one endpoint's
\* limiter: the requests counted 1..N in a window are admitted, every further
\* one in the window is rejected with 429, and a request at least W after the
\* window's start opens a new window (it is counted 1) and is admitted.
C2_QuotaPerWindow ==
    \A s \in Slots :
        LET r == reqs[s] IN
        Counted(r) =>
            IF r.hitNo <= Max(r)
            THEN r.res.status # 429 /\ r.pc \in {"guard", "handler", "done"}
            ELSE r.pc = "done" /\ r.res.status = 429 /\ r.res.writer = "rateLimit"
                 /\ r.ran = <<"auth", "limit">>

C2_Witness ==
    \E s \in Slots :
        LET r == reqs[s] IN
        /\ Counted(r)
        /\ r.hitNo = 1 /\ r.res.status # 429
        /\ hist[r.route][r.key].prev = Max(r) + 1
        /\ hist[r.route][r.key].start >= WindowTicks

\* C3: whatever the interleaving of the requests in flight, the requests
\* admitted for a key of an endpoint's limiter within one window never
\* number more than the tier's max.
C3_AtMostMaxAdmitted ==
    \A i \in 1..Len(hist) :
        \A k \in DOMAIN hist[i] :
            hist[i][k].adm <= limits[router[i].rateLimit].max

C3_Witness ==
    \E s1, s2 \in Slots :
        /\ s1 # s2
        /\ Counted(reqs[s1]) /\ Counted(reqs[s2])
        /\ reqs[s1].route = reqs[s2].route /\ reqs[s1].key = reqs[s2].key
        /\ reqs[s1].pc \in {"guard", "handler"}
        /\ reqs[s2].res.status = 429
        /\ hist[reqs[s1].route][reqs[s1].key].adm = Max(reqs[s1])

\* C4: on an endpoint with authorization "required" and a requireRole guard,
\* a request that reached the guard with a Principal whose role is absent or
\* not among the guard's roles is answered 403 FORBIDDEN without the handler
\* being invoked; one whose role is among them passes the guard: it goes on
\* to the next middleware, and to the handler when the guard is the last one.
C4_RoleGuard ==
    \A s \in Slots :
        LET r == reqs[s] IN
        \A j \in 1..r.g :
            (GuardActed(r, j) /\ Entry(r).authorization = "required"
                /\ Entry(r).middlewares[j].kind = "requireRole")
            => IF r.user.present /\ r.user.role \in Entry(r).middlewares[j].roles
               THEN /\ r.res.status # 403
                    /\ (r.g > j \/ r.pc = "handler" \/ Has(r, "handler"))
               ELSE /\ r.g = j /\ r.pc = "done"
                    /\ r.res.status = 403 /\ r.res.code = "FORBIDDEN"
                    /\ ~Has(r, "handler")

C4_Witness ==
    \E s1, s2 \in Slots :
        /\ GuardActed(reqs[s1], 1) /\ GuardActed(reqs[s2], 1)
        /\ reqs[s1].route = reqs[s2].route
        /\ Entry(reqs[s1]).middlewares[1].kind = "requireRole"
        /\ reqs[s1].user.role \notin Entry(reqs[s1]).middlewares[1].roles
        /\ reqs[s1].res.status = 403
        /\ reqs[s2].user.role \in Entry(reqs[s2]).middlewares[1].roles
        /\ Has(reqs[s2], "handler")

\* C5: the stages of a request run in the order authentication, rate
\* limiting, the extra middlewares as declared, the handler, each only after
\* all earlier ones passed, and a request that a stage failed was answered
\* by the error translator (errorHandler).
C5_FailuresReachErrorHandler ==
    \A s \in Slots :
        LET r == reqs[s] IN
        r.route # 0 =>
            /\ IsPrefix(r.ran, Chain(Entry(r)))
            /\ (r.pc = "done" /\ r.res.writer # "handler")
                   => r.res.writer = "errorHandler"

\* C6: no request is served from a route table that holds two entries with
\* the same (method, fullPath).
C6_NoDuplicateRouteServed ==
    phase = "serving" =>
        \A i, j \in 1..Len(router) :
            i # j => <<router[i].method, router[i].path>>
                        # <<router[j].method, router[j].path>>

\* C7: an endpoint that combines keyType "user" with authorization "none" is
\* never installed.
C7_UserKeyNeedsAuth ==
    \A i \in 1..Len(router) :
        ~(router[i].keyType = "user" /\ router[i].authorization = "none")

\* C8: on an endpoint with authorization "optional" and keyType "user", a
\* request that reaches the rate limiter without a Principal is keyed by its
\* normalized client address and counted under that key; it raises no error.
C8_UserKeyFallsBackToAddress ==
    \A s \in Slots :
        LET r == reqs[s] IN
        (r.route # 0 /\ Has(r, "limit")
            /\ Entry(r).authorization = "optional" /\ Entry(r).keyType = "user"
            /\ ~r.user.present)
        => /\ r.key = ipKeyGenerator(r.ip)
           /\ r.hitNo >= 1
           /\ r.res.status # 500

\* C9: requests of one tier and one identity share one window, also across
\* endpoints: once max requests of (tier, identity) were counted in a window,
\* the next one in that window is rejected, whichever endpoint of the tier it
\* goes to.
C9_WindowSharedPerTier ==
    \A s \in Slots :
        LET r == reqs[s] IN
        (Counted(r) /\ r.tierNo > Max(r)) => r.res.status = 429

\* C10: a request counted for one key of a limiter leaves the window (reset
\* time and count) of every other key of that limiter as it was: a window
\* changes only in the rate-limit step of a request with that very key.
Absent == [totalHits |-> -1, resetTime |-> -1]
Window(st, k) == IF k \in DOMAIN st THEN st[k] ELSE Absent

C10_KeysIndependent ==
    [][ \A i \in 1..Len(store) :
          \A k \in DOMAIN store'[i] \cup DOMAIN store[i] :
              Window(store'[i], k) # Window(store[i], k)
              => \E s \in Slots :
                    /\ reqs[s].pc = "limit"
                    /\ reqs'[s].pc # "limit"
                    /\ reqs'[s].route = i
                    /\ reqs'[s].key = k ]_vars

C10_Witness ==
    \E i \in 1..Len(store) :
        \E k1, k2 \in DOMAIN store[i] :
            /\ k1 # k2
            /\ store[i][k1].totalHits = limits[router[i].rateLimit].max
            /\ store[i][k1].resetTime > now
            /\ store[i][k2].totalHits = 1
            /\ store[i][k2].resetTime > store[i][k1].resetTime

\* C11: every request the pipeline rejects (401, 403, 429, 404, 500) gets a
\* response whose body is the object {error: {code, message}}.
C11_UniformErrorBody ==
    \A s \in Slots :
        LET r == reqs[s] IN
        (r.pc = "done" /\ r.res.status >= 400)
        => r.res.body = "error" /\ r.res.code # Undefined

\* C12: a response is written by the endpoint's handler or by errorHandler
\* only; authHandler, the rate limiter and the extra middlewares write none.
C12_OnlyHandlerAndTranslatorWrite ==
    \A s \in Slots :
        LET r == reqs[s] IN
        headersSent(r.res) =>
            \/ r.res.writer = "handler" /\ Has(r, "handler")
            \/ r.res.writer = "errorHandler" /\ r.err # NoError

\* C13: any two failures that are no AppError, raised by any stage or handler
\* before anything was sent, are answered alike: status 500, code
\* INTERNAL_ERROR and the one generic message, whatever the failures' own
\* messages.
GenericError ==
    [status |-> 500, code |-> "INTERNAL_ERROR", message |-> "Something went wrong",
     body |-> "error", writer |-> "errorHandler"]

UnknownFailure(r) ==
    r.pc = "done" /\ r.err # NoError /\ ~r.err.isApp /\ r.out # "partial"

C13_UnknownFailuresLookAlike ==
    \A s1, s2 \in Slots :
        (UnknownFailure(reqs[s1]) /\ UnknownFailure(reqs[s2]))
        => reqs[s1].res = reqs[s2].res /\ reqs[s1].res = GenericError

C13_Witness ==
    \E s1, s2 \in Slots :
        /\ UnknownFailure(reqs[s1]) /\ UnknownFailure(reqs[s2])
        /\ reqs[s1].err.message # reqs[s2].err.message
        /\ reqs[s1].ran # reqs[s2].ran

\* C14: when a failure reaches errorHandler after the handler has sent the
\* response's headers, errorHandler writes nothing: the response stays what
\* the handler had sent (no second status, no error body), and the failure
\* is only passed on.
C14_NoSecondWrite ==
    \A s \in Slots :
        LET r == reqs[s] IN
        r.out = "partial" =>
            /\ r.pc = "done"
            /\ r.err # NoError
            /\ r.res = StreamBegun

C14_Witness ==
    \E s \in Slots :
        /\ reqs[s].out = "partial"
        /\ reqs[s].pc = "done"
        /\ reqs[s].err = PlainError("read ECONNRESET")
        /\ reqs[s].res.writer = "handler"

\* C15: on an endpoint with authorization "none" the authentication stage
\* never fails and attaches no Principal, whatever the Authorization header
\* is; verifyJwt is not called; the request goes on to the rate limiter and,
\* once admitted (there being no further middleware), to the handler.
C15_NoneIsNoOp ==
    \A s \in Slots :
        LET r == reqs[s] IN
        (PastAuth(r) /\ Entry(r).authorization = "none")
        => /\ ~r.user.present
           /\ ~r.verified
           /\ r.res.status # 401
           /\ (r.pc = "limit" \/ Has(r, "limit"))
           /\ (Counted(r) /\ r.hitNo <= Max(r) /\ Entry(r).middlewares = <<>>)
                  => (r.pc = "handler" \/ Has(r, "handler"))

C15_Witness ==
    \E s \in Slots :
        /\ PastAuth(reqs[s])
        /\ Entry(reqs[s]).authorization = "none"
        /\ reqs[s].header = <<"Bearer ", "tTeacher">>
        /\ ~reqs[s].user.present
        /\ reqs[s].out = "ok"

\* C16: on an endpoint with authorization "optional" the authentication
\* stage never fails the request: a bearer token that verifies attaches its
\* Principal; with no header, a header that is no bearer credential or a
\* token the verifier rejects, the request goes on to the rate limiter
\* without a Principal.
C16_OptionalNeverFails ==
    \A s \in Slots :
        LET r == reqs[s]
            good == startsWithBearer(r.header) /\ jwtVerify(r.header[2]).ok
                        /\ jwtVerify(r.header[2]).sub # Undefined
        IN
        (PastAuth(r) /\ Entry(r).authorization = "optional")
        => /\ r.res.status # 401
           /\ (r.pc = "limit" \/ Has(r, "limit"))
           /\ IF good
              THEN r.user = [present |-> TRUE, id |-> jwtVerify(r.header[2]).sub,
                             role |-> jwtVerify(r.header[2]).role]
              ELSE r.user = NoUser

C16_Witness ==
    \E s \in Slots :
        /\ PastAuth(reqs[s])
        /\ Entry(reqs[s]).authorization = "optional"
        /\ reqs[s].header \in {<<"Bearer ", "tExpired">>, <<"Bearer ", "tNoSub">>}
        /\ reqs[s].user = NoUser
        /\ reqs[s].out = "ok"

\* C17: on an endpoint with authorization "required", a request with a bearer
\* credential whose verification fails in any way (jwtVerify throws, the key
\* fetch times out, the token has no string subject) is answered 401
\* UNAUTHORIZED by the authentication stage alone: the same status and code
\* as without a credential, another message.  A request goes on only when
\* its verification succeeded, and then its Principal is the verifier's
\* result (the token's subject and role).
C17_VerifierFailureIs401 ==
    \A s \in Slots :
        LET r == reqs[s] IN
        (PastAuth(r) /\ Entry(r).authorization = "required"
            /\ startsWithBearer(r.header))
        => /\ r.verified
           /\ IF r.user.present
              THEN /\ jwtVerify(r.header[2]).ok
                   /\ jwtVerify(r.header[2]).sub # Undefined
                   /\ r.user.id = jwtVerify(r.header[2]).sub
                   /\ r.user.role = jwtVerify(r.header[2]).role
              ELSE /\ r.pc = "done"
                   /\ r.ran = <<"auth">>
                   /\ r.res = [errorHandler(NoResponse,
                                    UnauthorizedError("Authentication required"))
                                  EXCEPT !.message = "Invalid or expired token"]

C17_Witness ==
    \E s \in Slots :
        /\ PastAuth(reqs[s])
        /\ Entry(reqs[s]).authorization = "required"
        /\ reqs[s].header = <<"Bearer ", "tNoSub">>
        /\ reqs[s].res.status = 401
        /\ reqs[s].res.message = "Invalid or expired token"

\* C18: routesHandler registers the endpoint modules one after another and
\* is through with all of them before the router is mounted and before any
\* request is taken; from then on the route table is the complete table of
\* the directory and does not change, and every request is dispatched
\* against it.
C18_TableCompleteBeforeTraffic ==
    (phase = "serving" \/ nreq > 0 \/ \E s \in Slots : reqs[s].pc # "idle")
    => /\ phase = "serving"
       /\ loaded = Len(directory)
       /\ router = routesHandler(<<>>, directory, 1).router
       /\ \A s \in Slots :
             reqs[s].pc # "idle"
             => reqs[s].route = Match(router, reqs[s].method, reqs[s].path)

C18_Witness ==
    \E s \in Slots :
        /\ phase = "serving"
        /\ Len(directory) > 1
        /\ nreq = load.requests
        /\ reqs[s].route = Len(router)
        /\ reqs[s].pc = "done"

\* C19: when the registration of an endpoint module throws (the module
\* cannot be imported, or a declaration of it cannot be installed),
\* routesHandler throws and the start is given up: the application never
\* mounts, and never serves traffic from, the router that holds the routes
\* registered before the failure.
C19_FailedRegistrationNeverServes ==
    /\ routesHandler(<<>>, directory, 1).threw
          => phase # "serving" /\ nreq = 0 /\ \A s \in Slots : reqs[s].pc = "idle"
    /\ phase = "aborted"
          => /\ routesHandler(<<>>, directory, 1).threw
             /\ router = routesHandler(<<>>, directory, 1).router

C19_Witness ==
    /\ phase = "aborted"
    /\ Len(router) = 2
    /\ loaded = 1
    /\ now > 0

\* C20: on an endpoint with authorization "required", a request whose
\* credential verification does not come back (the key fetch is never
\* answered) is, after the fetch's timeout, answered 401 by the
\* authentication stage: it leaves the wait only with that answer, never
\* for a later stage or the handler, and it does not wait forever.
Stalled(r) ==
    r.pc = "verifying" /\ r.route # 0 /\ router[r.route].authorization = "required"

C20_StalledVerifierFailsClosed ==
    /\ [][ \A s \in Slots :
              Stalled(reqs[s])
              => \/ reqs'[s] = reqs[s]
                 \/ /\ reqs'[s].pc = "done"
                    /\ reqs'[s].res.status = 401
                    /\ reqs'[s].res.code = "UNAUTHORIZED"
                    /\ reqs'[s].ran = <<"auth">> ]_vars
    /\ \A s \in Slots :
          Stalled(reqs[s]) ~> (reqs[s].pc = "done" /\ reqs[s].res.status = 401)

C20_Witness ==
    \E s \in Slots :
        /\ reqs[s].pc = "done"
        /\ reqs[s].header = <<"Bearer ", "tTeacher">>
        /\ reqs[s].route # 0
        /\ router[reqs[s].route].authorization = "required"
        /\ reqs[s].verified
        /\ reqs[s].res.status = 401

\* C21: every installed endpoint that has a role guard among its middlewares
\* has authorization "required" (registration sees to it), and so whenever a
\* role guard has run for a request, a Principal was attached to it.
C21_GuardOnlyAfterRequired ==
    /\ \A i \in 1..Len(router) :
          (\E j \in 1..Len(router[i].middlewares) :
               router[i].middlewares[j].kind = "requireRole")
          => router[i].authorization = "required"
    /\ \A s \in Slots :
          \A j \in 1..reqs[s].g :
              (GuardActed(reqs[s], j)
                  /\ Entry(reqs[s]).middlewares[j].kind = "requireRole")
              => reqs[s].user.present

\* C22: the router holds one entry for each endpoint declared by the modules
\* loaded so far, in the order of declaration, under the declared method and
\* the path basePath + suffix (the base path alone when the endpoint has no
\* suffix); none is missing and none is installed a second time.
RECURSIVE Declared(_, _)
Declared(dir, n) ==
    IF n = 0 THEN <<>>
    ELSE Declared(dir, n - 1)
            \o [k \in 1..Len(dir[n].functions) |->
                    [base |-> dir[n].path, obj |-> dir[n].functions[k]]]

C22_OneEntryPerEndpoint ==
    phase # "aborted" =>
        LET d == Declared(directory, loaded) IN
        /\ Len(router) = Len(d)
        /\ \A k \in 1..Len(d) :
              /\ router[k].method = d[k].obj.method
              /\ router[k].path = IF d[k].obj.props = NoProps THEN d[k].base
                                  ELSE d[k].base \o d[k].obj.props
              /\ router[k].authorization = d[k].obj.authorization
              /\ router[k].rateLimit = d[k].obj.rateLimit
              /\ router[k].keyType = d[k].obj.keyType

C22_Witness ==
    /\ phase = "serving"
    /\ loaded = 2
    /\ Len(router) = 3
    /\ router[3].path = "/me"
    /\ router[1].path = "/engagement/process"
    /\ nreq > 0

\* The fixed-window algorithm the rate-limit stage is to follow, run on the
\* timestamps ts[i..] of one key from the window win: a fresh window (count
\* 1) and admit when there is no window or the window is too old; otherwise
\* count and admit below max, reject at max.  "Too old" is an age above w,
\* or, with atEnd, an age of at least w.
NoWindow == [exists |-> FALSE, start |-> 0, count |-> 0]

RECURSIVE FixedWindow(_, _, _, _, _, _)
FixedWindow(ts, i, win, w, max, atEnd) ==
    IF i > Len(ts) THEN <<>>
    ELSE LET age == ts[i] - win.start
             old == IF atEnd THEN age >= w ELSE age > w
         IN IF ~win.exists \/ old
            THEN <<TRUE>> \o FixedWindow(ts, i + 1,
                                [exists |-> TRUE, start |-> ts[i], count |-> 1],
                                w, max, atEnd)
            ELSE IF win.count < max
            THEN <<TRUE>> \o FixedWindow(ts, i + 1, [win EXCEPT !.count = @ + 1],
                                         w, max, atEnd)
            ELSE <<FALSE>> \o FixedWindow(ts, i + 1, win, w, max, atEnd)

\* The calls for key k so far, their times and the limiter's decisions.
CallsOf(k) == LET ofKey(c) == c.key = k IN SelectSeq(jobs, ofKey)
TimesOf(k) == [i \in 1..Len(CallsOf(k)) |-> CallsOf(k)[i].t]
DecisionsOf(k) == [i \in 1..Len(CallsOf(k)) |-> CallsOf(k)[i].admitted]

\* C23, as stated: for every sequence of request times of one key the
\* limiter decides as the fixed-window algorithm that starts a fresh window
\* only when the window's age exceeds windowMs, and so rejects a request
\* arriving exactly windowMs after the start of a full window.
C23_AsFixedWindowAgeAbove ==
    \A k \in LimiterKeys :
        DecisionsOf(k) = FixedWindow(TimesOf(k), 1, NoWindow,
                                     limits["strict"].windowMs, limits["strict"].max,
                                     FALSE)

\* C23, amended: for every sequence of request times of one key the limiter
\* decides as the fixed-window algorithm that starts a fresh window when
\* there is none or the window's age is at least windowMs: a request
\* arriving exactly windowMs after the window started opens a new window
\* and is admitted.
C23_AsFixedWindowAgeAtLeast ==
    \A k \in LimiterKeys :
        DecisionsOf(k) = FixedWindow(TimesOf(k), 1, NoWindow,
                                     limits["strict"].windowMs, limits["strict"].max,
                                     TRUE)

C23_Witness ==
    \E k \in LimiterKeys :
        LET n == Len(CallsOf(k)) IN
        /\ n = limits["strict"].max + 2
        /\ TimesOf(k)[1] = 0
        /\ ~DecisionsOf(k)[n - 1]
        /\ TimesOf(k)[n] = limits["strict"].windowMs
        /\ DecisionsOf(k)[n]

\* C24: with keyType "default" the limiter's key of a request is the user id
\* when a user is attached and otherwise the client address, normalized (an
\* IPv6 address reduced to its /56 network, an IPv4 address as it is); with
\* keyType "ip" it is the normalized address also when a user is attached.
\* Neither strategy fails to give a key.
NormalizedAddress(ip) ==
    IF ip.fam = 6 THEN ip.hi \o "::/56" ELSE ip.hi \o ip.lo

C24_DefaultAndAddressKeys ==
    \A s \in Slots :
        LET r == reqs[s] IN
        (r.route # 0 /\ Has(r, "limit") /\ Entry(r).keyType \in {"default", "ip"})
        => IF Entry(r).keyType = "default" /\ r.user.present
           THEN r.key = r.user.id
           ELSE r.key = NormalizedAddress(r.ip)

C24_Witness ==
    \E s \in Slots :
        LET r == reqs[s] IN
        /\ Counted(r)
        /\ Entry(r).keyType = "ip"
        /\ r.user.present
        /\ r.ip = ip6b
        /\ r.key = "2001:db8:0:100::/56"
        /\ r.hitNo = 2
        /\ store[r.route][r.key].totalHits = 2
        /\ DOMAIN store[r.route] = {r.key}

\* C25: the step in which the authentication stage rejects a request with
\* 401 changes no window of any limiter, and the request has no key and was
\* counted nowhere: requests that fail authentication are not counted, so
\* they never use up a quota.
C25_UnauthorizedIsNotCounted ==
    [][ \A s \in Slots :
          (reqs[s].pc # "done" /\ reqs'[s].pc = "done" /\ reqs'[s].res.status = 401)
          => /\ store' = store
             /\ reqs'[s].key = Undefined
             /\ reqs'[s].hitNo = 0
             /\ reqs'[s].ran = <<"auth">> ]_vars

C25_Witness ==
    \E s \in Slots :
        LET r == reqs[s] IN
        /\ r.route # 0
        /\ r.res.status = 401
        /\ nreq = 2
        /\ \E k \in DOMAIN store[r.route] : store[r.route][k].totalHits = 1

\* C26: a request that passed authentication and the rate limiter is counted
\* also when the role guard then rejects it with 403: of the requests of a
\* user whose role the guard refuses, those counted 1..max in a window get
\* 403, and every further one in the window gets 429 from the limiter and
\* does not reach the guard.
Refused(r) ==
    /\ Counted(r)
    /\ Entry(r).authorization = "required"
    /\ Len(Entry(r).middlewares) >= 1
    /\ Entry(r).middlewares[1].kind = "requireRole"
    /\ r.user.role \notin Entry(r).middlewares[1].roles

C26_ForbiddenUsesQuota ==
    \A s \in Slots :
        LET r == reqs[s] IN
        Refused(r) =>
            IF r.hitNo <= Max(r)
            THEN r.pc = "guard" \/ (r.pc = "done" /\ r.res.status = 403)
            ELSE r.pc = "done" /\ r.res.status = 429 /\ ~Has(r, "requireRole")

C26_Witness ==
    \E s \in Slots :
        LET r == reqs[s] IN
        /\ Refused(r)
        /\ r.hitNo = Max(r) + 1
        /\ r.res.status = 429
        /\ hist[r.route][r.key].adm = Max(r)
        /\ \A s2 \in Slots : reqs[s2].pc \in {"idle", "done"}

\* C27: a request rejected with 429 neither restarts nor extends its key's
\* window: the window of a key ends windowMs after the first request counted
\* in it, whatever came after, and the first request at or after that time
\* is counted 1 in a new window and admitted.
C27_RejectionsKeepTheWindow ==
    /\ \A i \in 1..Len(store) :
          \A k \in DOMAIN store[i] :
              /\ store[i][k].resetTime
                    = hist[i][k].start + limits[router[i].rateLimit].windowMs
              /\ store[i][k].totalHits = hist[i][k].n
    /\ \A s \in Slots :
          (Counted(reqs[s]) /\ reqs[s].hitNo = 1) => reqs[s].res.status # 429

C27_Witness ==
    \E s \in Slots :
        LET r == reqs[s] IN
        /\ Counted(r)
        /\ r.hitNo = 1
        /\ r.pc \in {"guard", "handler"}
        /\ hist[r.route][r.key].prev > Max(r)
        /\ hist[r.route][r.key].start = WindowTicks
        /\ store[r.route][r.key].resetTime = 2 * WindowTicks

\* C28: the endpoint's handler is invoked at most once for a request and one
\* response at most is written: when the handler answers, that is the
\* response; when it throws before writing, the failure reaches errorHandler
\* and errorHandler's answer is the response; when it throws after it began
\* to write, the failure reaches errorHandler too and the response stays
\* the handler's.
C28_OneHandlerOneResponse ==
    \A s \in Slots :
        LET r == reqs[s] IN
        /\ Cardinality({i \in 1..Len(r.ran) : r.ran[i] = "handler"}) <= 1
        /\ Has(r, "handler") <=> r.out # "none"
        /\ r.out = "ok" => r.err = NoError /\ r.res = Answer
        /\ r.out \in {"badRequest", "crash"}
              => /\ r.err # NoError
                 /\ r.res.writer = "errorHandler"
                 /\ r.res.status = IF r.err.isApp THEN r.err.statusCode ELSE 500
        /\ r.out = "partial" => r.err # NoError /\ r.res.writer = "handler"

C28_Witness ==
    \E s \in Slots :
        LET r == reqs[s] IN
        /\ r.out = "badRequest"
        /\ r.res.status = 400
        /\ r.res.writer = "errorHandler"
        /\ r.ran = Chain(Entry(r))
        /\ Len(r.ran) = 4

\* The invocations of the submit handler for quiz q by student st.
Submits(q, st) ==
    {j \in 1..Len(jobs) : jobs[j].quiz = q /\ jobs[j].student = st}

C30_CompletedMeansFullProgress ==
    \A i \in 1..Len(db.studyTopics) :
        LET topic == db.studyTopics[i] IN
        /\ topic.aiProgress \in 0..100
        /\ topic.status = "completed" => topic.aiProgress = 100

====
